---- MODULE Spec2Model ----
(***************************************************************************)
(* GrattisEvent (src/index.js): an event queue kept in one MongoDB         *)
(* collection.  send() inserts an event document, getItems() starts a      *)
(* timer whose callback fetches the due documents and hands them to a      *)
(* handler, removeEvent() deletes one document by _id.                     *)
(*                                                                         *)
(* One action is the code that runs between two awaits.  A store           *)
(* operation (insert, find, deleteOne) takes effect at the step at which   *)
(* its promise settles.                                                    *)
(***************************************************************************)
EXTENDS Integers, Sequences, FiniteSets, TLC

\* ------------------------------------------------------------- bounds
MaxEvents == 2      \* documents ever inserted
MaxTime == 2        \* Date.now() runs over 0..MaxTime
MaxCalls == 1       \* send calls, and removeEvent calls, in flight at once
MaxCycles == 2      \* timer callbacks in flight at once (cap of the model)
SmallLimit == 1     \* a batch size below the number of documents

\* ------------------------------------------------ program constants
DefaultLimit == 10000   \* getItems: limit = 10000
HexLen == 24            \* isObjectId: {24}

\* a limit that keeps the end of the sorted result
LimitFromEnd(s, n) ==
  SubSeq(s, IF n < Len(s) THEN Len(s) - n + 1 ELSE 1, Len(s))

Procs == {"p1", "p2"}   \* GrattisEvent instances (one per process)
Ids == 1..MaxEvents     \* _id values the store assigns, in this order
NoSuchId == MaxEvents + 1   \* a well-formed _id the store never assigns
Times == 0..MaxTime
Limits == {SmallLimit, DefaultLimit}

VARIABLES
  live,        \* the instances that exist
  observe,     \* whether the history variable settled is recorded
  now,         \* Date.now()
  store,       \* the collection: a set of documents
  nextId,      \* the next _id the store assigns
  collection,  \* this.collection: 0 is null, k the handle of the k-th connect
  connected,   \* number of MongoClient connections this instance established
  isRun,       \* this.isRun
  timer,       \* getItems: "none", "connecting" (awaiting connect), "running"
  limit,       \* getItems' limit argument
  cycles,      \* timer callbacks in flight: <<[pc, qnow, events, doneAtIssue]>>
  sends,       \* send calls in flight: <<[p, pc, value, date, passed]>>
  removes,     \* removeEvent calls in flight: <<[p, id]>>
  outcome,     \* history: the last thing the timer callback did
  settled,     \* history: the last send or removeEvent call to settle,
               \*          and how: [op, result]
  handled,     \* history: _ids of the stored documents that were in the
               \*          batch of a handler invocation that has finished
  sentValue,   \* history: sentValue[id] is the payload as passed to send
  removedDone  \* history: _ids whose removeEvent call has resolved

vars == <<live, observe, now, store, nextId, collection, connected, isRun,
          timer, limit, cycles, sends, removes, outcome, settled, handled,
          sentValue,
          removedDone>>

pollerVars == <<isRun, timer, limit, cycles, outcome>>
callVars == <<sends, removes, settled, removedDone>>
connVars == <<collection, connected>>
storeVars == <<store, nextId>>

\* ------------------------------------------------------------ values
HexChars ==
  {"0", "1", "2", "3", "4", "5", "6", "7", "8", "9",
   "a", "b", "c", "d", "e", "f", "A", "B", "C", "D", "E", "F"}

Rep(c, n) == [i \in 1..n |-> c]

Str(s) == [t |-> "string", s |-> s]
Num(n) == [t |-> "number", n |-> n]
Mapping(keys) == [t |-> "mapping", keys |-> keys]
ObjectId(hex) == [t |-> "ObjectId", hex |-> hex]

\* JavaScript's typeof
typeof(val) ==
  CASE val.t = "string" -> "string"
    [] val.t = "number" -> "number"
    [] OTHER -> "object"

\* Whether val.match is callable: String.prototype.match; numbers, plain
\* mappings and ObjectId values have no match method.
HasMatch(val) == val.t = "string"

\* /^[0-9a-fA-F]{24}$/ on a string
MatchesHex24(s) == Len(s) = HexLen /\ \A i \in 1..Len(s) : s[i] \in HexChars

\* isObjectId(str): str.match(...) - a TypeError where str has no match method
isObjectId(val) ==
  [thrown |-> ~HasMatch(val), match |-> HasMatch(val) /\ MatchesHex24(val.s)]

\* The forEach callback of send for one value: the value stored, or a throw.
NormalizeVal(val) ==
  IF typeof(val) = "string"
    THEN [thrown |-> FALSE, v |-> val]
    ELSE LET m == isObjectId(val) IN
         IF m.thrown THEN [thrown |-> TRUE, v |-> val]
         ELSE IF m.match THEN [thrown |-> FALSE, v |-> ObjectId(val.s)]
         ELSE [thrown |-> FALSE, v |-> val]

\* Object.keys(value).forEach(...) of send
Normalize(value) ==
  IF \E k \in DOMAIN value : NormalizeVal(value[k]).thrown
    THEN [thrown |-> TRUE, value |-> value]
    ELSE [thrown |-> FALSE,
          value |-> [k \in DOMAIN value |-> NormalizeVal(value[k]).v]]

\* a document dated at the insert instead of by the argument
DocDatedNow(id, value, date) ==
  [id |-> id, value |-> value, date |-> now, isWork |-> FALSE, isDone |-> FALSE]

\* ------------------------------------------------------------- store
\* The document send inserts
NewDoc(id, value, date) ==
  [id |-> id, value |-> value, date |-> date, isWork |-> FALSE, isDone |-> FALSE]

\* a filter without the date condition
NoDateFilter(r, qnow) == r.isWork = FALSE /\ r.isDone = FALSE

\* a filter that takes the documents already handed out as done
SkipHandled(r, qnow) ==
  r.date < qnow /\ r.isWork = FALSE /\ r.isDone = FALSE /\ r.id \notin handled

\* The filter of getItems' find
DueFilter(r, qnow) == r.date < qnow /\ r.isWork = FALSE /\ r.isDone = FALSE

\* sort({ date: -1 })
SortDescending(a, b) == a.date >= b.date

\* sort({ date: 1 }): a before b is allowed
SortOrder(a, b) == a.date <= b.date

\* limit(n) on a sorted result
Limit(s, n) == SubSeq(s, 1, IF n < Len(s) THEN n ELSE Len(s))

\* The orders in which the store may return the set S under the sort
\* (documents with equal dates come in any order)
SortedSeqs(S) ==
  {s \in [1..Cardinality(S) -> S] :
     /\ \A i, j \in 1..Cardinality(S) : i # j => s[i] # s[j]
     /\ \A i, j \in 1..Cardinality(S) : i < j => SortOrder(s[i], s[j])}

\* find(filter).sort({date: 1}).limit(n).toArray(): the possible results
FindResults(qnow, n) ==
  {Limit(s, n) : s \in SortedSeqs({r \in store : DueFilter(r, qnow)})}

\* a deleteOne that matches nothing
DeleteNothing(id) == store

\* a delete that matches on the date of the identified document
DeleteSameDate(id) ==
  {r \in store : \A q \in store : q.id = id => r.date # q.date}

\* deleteOne({_id}): the collection afterwards
DeleteOne(id) == {r \in store : r.id # id}

StoredIds == {r.id : r \in store}
Range(s) == {s[i] : i \in 1..Len(s)}
IdsOf(s) == {s[i].id : i \in 1..Len(s)}
RemoveAt(s, i) == SubSeq(s, 1, i - 1) \o SubSeq(s, i + 1, Len(s))

\* ---------------------------------------------------------- payloads
Hex24 == Rep("a", HexLen)
Hi == <<"h", "i">>
\* "507f1f77bcf86cd799439011"
HexId ==
  <<"5", "0", "7", "f", "1", "f", "7", "7", "b", "c", "f", "8",
    "6", "c", "d", "7", "9", "9", "4", "3", "9", "0", "1", "1">>

\* top-level payload values: strings that match the pattern, strings that
\* miss it by length or by one character, and values that are not strings
SampleValues ==
  { Str(HexId), Str(Rep("F", HexLen)), Str(Hi),
    Str(Rep("a", HexLen - 1)), Str(Rep("a", HexLen + 1)),
    Str(Rep("a", HexLen - 1) \o <<"g">>),
    Num(7), Mapping({"x"}), ObjectId(Hex24) }

\* payloads of the send specification: {}, {ref}, {ref, note: "hi"}
AllPayloads ==
  {<<>>} \cup {[ref |-> v] : v \in SampleValues}
         \cup {[ref |-> v, note |-> Str(Hi)] : v \in SampleValues}

\* payloads of the queue specification
Payloads ==
  { [note |-> Str(Hi)],
    [n |-> Num(7)] }

Settled(op, result) ==
  IF observe THEN [op |-> op, result |-> result] ELSE settled

\* a send that catches the error of an awaited promise and resolves
SendSwallowed(err) == Settled("send", "ok")

\* send has no try/catch: the error of an awaited promise rejects the call
SendRejected(err) == Settled("send", err)

\* The instances of L, just constructed; nothing stored
Constructed(L) ==
  /\ live = L
  /\ now = 0
  /\ store = {}
  /\ nextId = 1
  /\ collection = [p \in Procs |-> 0]
  /\ connected = [p \in Procs |-> 0]
  /\ isRun = [p \in Procs |-> FALSE]
  /\ timer = [p \in Procs |-> "none"]
  /\ limit = [p \in Procs |-> DefaultLimit]
  /\ cycles = [p \in Procs |-> <<>>]
  /\ sends = <<>>
  /\ removes = <<>>
  /\ outcome = [p \in Procs |-> "none"]
  /\ settled = [op |-> "none", result |-> "none"]
  /\ handled = {}
  /\ sentValue = <<>>
  /\ removedDone = {}

\* One instance
Start == Constructed({"p1"})

Init == Start /\ observe = FALSE

\* Two instances, one per process, on the same collection
InitMulti == Constructed(Procs) /\ observe = FALSE

\* the same, with the outcome of every send and removeEvent call recorded
InitObserved == Start /\ observe = TRUE

\* -------------------------------------------------------------- time
AdvanceTime ==
  /\ now < MaxTime
  /\ now' = now + 1
  /\ UNCHANGED <<live, observe, storeVars, connVars, pollerVars, callVars,
                 handled, sentValue>>

\* -------------------------------------------------------------- send
\* send after its connect check: the forEach, then the insert is issued.
\* rest is the send calls in flight without this one.
SendBody(p, value, date, rest) ==
  LET n == Normalize(value) IN
  IF n.thrown
    THEN /\ sends' = rest
         /\ settled' = Settled("send", "TypeError")
    ELSE /\ sends' = Append(rest, [p |-> p, pc |-> "insert", value |-> n.value,
                                   date |-> date, passed |-> value])
         /\ UNCHANGED settled

\* send(value, date) is called; date = now is the default argument
SendCall(p, value, date) ==
  /\ p \in live
  /\ Len(sends) < MaxCalls
  /\ nextId + Len(sends) <= MaxEvents
  /\ IF collection[p] = 0
       THEN /\ sends' = Append(sends, [p |-> p, pc |-> "connect", value |-> value,
                                       date |-> date, passed |-> value])
            /\ UNCHANGED settled
       ELSE SendBody(p, value, date, sends)
  /\ UNCHANGED <<live, observe, now, storeVars, connVars, pollerVars, removes,
                 removedDone, handled, sentValue>>

\* connect() resolves inside send: the handles are set, send goes on
SendConnected(i) ==
  /\ i \in 1..Len(sends)
  /\ sends[i].pc = "connect"
  /\ LET f == sends[i] IN
     /\ connected' = [connected EXCEPT ![f.p] = @ + 1]
     /\ collection' = [collection EXCEPT ![f.p] = connected[f.p] + 1]
     /\ SendBody(f.p, f.value, f.date, RemoveAt(sends, i))
  /\ UNCHANGED <<live, observe, now, storeVars, pollerVars, removes,
                 removedDone,
                 handled, sentValue>>

\* connect() rejects inside send: send rejects
SendConnectFail(i) ==
  /\ i \in 1..Len(sends)
  /\ sends[i].pc = "connect"
  /\ sends' = RemoveAt(sends, i)
  /\ settled' = SendRejected("ConnectionError")
  /\ UNCHANGED <<live, observe, now, storeVars, connVars, pollerVars, removes,
                 removedDone, handled, sentValue>>

\* collection.insert resolves: the document is in the collection
InsertOk(i) ==
  /\ i \in 1..Len(sends)
  /\ sends[i].pc = "insert"
  /\ store' = store \cup {NewDoc(nextId, sends[i].value, sends[i].date)}
  /\ nextId' = nextId + 1
  /\ sends' = RemoveAt(sends, i)
  /\ settled' = Settled("send", "ok")
  /\ sentValue' = Append(sentValue, sends[i].passed)
  /\ UNCHANGED <<live, observe, now, connVars, pollerVars, removes, removedDone,
                 handled>>

\* collection.insert rejects: send rejects
InsertFail(i) ==
  /\ i \in 1..Len(sends)
  /\ sends[i].pc = "insert"
  /\ sends' = RemoveAt(sends, i)
  /\ settled' = SendRejected("WriteError")
  /\ UNCHANGED <<live, observe, now, storeVars, connVars, pollerVars, removes,
                 removedDone, handled, sentValue>>

\* ------------------------------------------------------- removeEvent
\* removeEvent(eventId) is called: this.collection.deleteOne(...) is issued,
\* a TypeError where this.collection is still null
RemoveCall(p, id) ==
  /\ p \in live
  /\ Len(removes) < MaxCalls
  /\ IF collection[p] = 0
       THEN /\ settled' = Settled("removeEvent", "TypeError")
            /\ UNCHANGED removes
       ELSE /\ removes' = Append(removes, [p |-> p, id |-> id])
            /\ UNCHANGED settled
  /\ UNCHANGED <<live, observe, now, storeVars, connVars, pollerVars, sends,
                 removedDone, handled, sentValue>>

\* deleteOne resolves (whatever its deletedCount): removeEvent resolves
DeleteOk(i) ==
  /\ i \in 1..Len(removes)
  /\ store' = DeleteOne(removes[i].id)
  /\ removes' = RemoveAt(removes, i)
  /\ settled' = Settled("removeEvent", "ok")
  /\ removedDone' = removedDone \cup {removes[i].id}
  /\ handled' = handled \ {removes[i].id}
  /\ UNCHANGED <<live, observe, now, nextId, connVars, pollerVars, sends,
                 sentValue>>

\* deleteOne rejects (the store fails): removeEvent rejects
DeleteFail(i) ==
  /\ i \in 1..Len(removes)
  /\ removes' = RemoveAt(removes, i)
  /\ settled' = Settled("removeEvent", "StoreError")
  /\ UNCHANGED <<live, observe, now, storeVars, connVars, pollerVars, sends,
                 removedDone, handled, sentValue>>

\* ---------------------------------------------------------- getItems
\* getItems(cb, timeout, limit) is called: connect if needed, then setInterval.
\* One timer per instance: a second timer of the same instance would only
\* add ticks, and a tick may fire at any moment already.
GetItemsCall(p, n) ==
  /\ p \in live
  /\ timer[p] = "none"
  /\ limit' = [limit EXCEPT ![p] = n]
  /\ timer' = [timer EXCEPT ![p] = IF collection[p] = 0 THEN "connecting"
                                                        ELSE "running"]
  /\ UNCHANGED <<live, observe, now, storeVars, connVars, isRun, cycles,
                 outcome,
                 callVars, handled, sentValue>>

\* connect() resolves inside getItems: the timer is started
GetItemsConnected(p) ==
  /\ timer[p] = "connecting"
  /\ connected' = [connected EXCEPT ![p] = @ + 1]
  /\ collection' = [collection EXCEPT ![p] = connected[p] + 1]
  /\ timer' = [timer EXCEPT ![p] = "running"]
  /\ UNCHANGED <<live, observe, now, storeVars, isRun, limit, cycles, outcome,
                 callVars, handled, sentValue>>

\* connect() rejects inside getItems: getItems rejects, no timer
GetItemsConnectFail(p) ==
  /\ timer[p] = "connecting"
  /\ timer' = [timer EXCEPT ![p] = "none"]
  /\ UNCHANGED <<live, observe, now, storeVars, connVars, isRun, limit,
                 cycles, outcome,
                 callVars, handled, sentValue>>

\* a callback without the guard
NoGuard(p) == FALSE

\* a guard shared by the instances on the collection
GlobalGuard(p) == \E q \in Procs : isRun[q]

\* if (this.isRun) return null
GuardSkips(p) == isRun[p]

\* a callback that clears the mark on an empty result (the eventual
\* delivery of C2 holds of it)
MarkClearedOnEmpty(p) == FALSE

\* this.isRun when the callback returns on an empty result: not assigned
IsRunAfterEmpty(p) == isRun[p]

\* this.isRun = false after await cb(events)
IsRunAfterCb == FALSE

\* a catch block that leaves the mark set
MarkKeptInCatch == TRUE

\* this.isRun = false in the catch block
IsRunAfterCatch == FALSE

\* a callback that hands every result to the handler
NeverEmpty(res) == FALSE

\* if (!events || events.length === 0) return null
EmptyResult(res) == Len(res) = 0

\* a dispatcher that marks the documents of the batch as being worked on
MarkInWork(res) ==
  {IF r \in Range(res) THEN [r EXCEPT !.isWork = TRUE] ELSE r : r \in store}

\* the collection after find(...).toArray(): the callback only reads
StoreAfterFind(res) == store

\* a callback that starts its cycle without setting the mark
MarkNotSet == FALSE

\* this.isRun = true, before the find is issued
IsRunAtStart == TRUE

\* The timer fires: the guard, this.isRun = true, the find is issued
TimerTick(p) ==
  /\ timer[p] = "running"
  /\ IF GuardSkips(p)
       THEN /\ outcome' = [outcome EXCEPT ![p] = "skipped"]
            /\ UNCHANGED <<isRun, cycles>>
       ELSE /\ Len(cycles[p]) < MaxCycles
            /\ isRun' = [isRun EXCEPT ![p] = IsRunAtStart]
            /\ cycles' = [cycles EXCEPT ![p] =
                 Append(@, [pc |-> "find", qnow |-> now, events |-> <<>>,
                            doneAtIssue |-> removedDone])]
            /\ outcome' = [outcome EXCEPT ![p] = "started"]
  /\ UNCHANGED <<live, observe, now, storeVars, connVars, timer, limit,
                 callVars,
                 handled, sentValue>>

\* The find resolves: return on an empty result, else cb(events) is called
FindReturn(p, i) ==
  /\ i \in 1..Len(cycles[p])
  /\ cycles[p][i].pc = "find"
  /\ \E res \in FindResults(cycles[p][i].qnow, limit[p]) :
       IF EmptyResult(res)
         THEN /\ cycles' = [cycles EXCEPT ![p] = RemoveAt(@, i)]
              /\ isRun' = [isRun EXCEPT ![p] = IsRunAfterEmpty(p)]
              /\ outcome' = [outcome EXCEPT ![p] = "empty"]
              /\ store' = StoreAfterFind(res)
         ELSE /\ cycles' = [cycles EXCEPT ![p][i].pc = "cb",
                                          ![p][i].events = res]
              /\ outcome' = [outcome EXCEPT ![p] = "delivering"]
              /\ store' = StoreAfterFind(res)
              /\ UNCHANGED isRun
  /\ UNCHANGED <<live, observe, now, nextId, connVars, timer, limit,
                 callVars,
                 handled, sentValue>>

\* The find rejects: the catch block
FindFail(p, i) ==
  /\ i \in 1..Len(cycles[p])
  /\ cycles[p][i].pc = "find"
  /\ cycles' = [cycles EXCEPT ![p] = RemoveAt(@, i)]
  /\ isRun' = [isRun EXCEPT ![p] = IsRunAfterCatch]
  /\ outcome' = [outcome EXCEPT ![p] = "queryError"]
  /\ UNCHANGED <<live, observe, now, storeVars, connVars, timer, limit,
                 callVars,
                 handled, sentValue>>

\* The handler's promise resolves
CbReturn(p, i) ==
  /\ i \in 1..Len(cycles[p])
  /\ cycles[p][i].pc = "cb"
  /\ cycles' = [cycles EXCEPT ![p] = RemoveAt(@, i)]
  /\ isRun' = [isRun EXCEPT ![p] = IsRunAfterCb]
  /\ outcome' = [outcome EXCEPT ![p] = "ok"]
  /\ handled' = (handled \cup IdsOf(cycles[p][i].events)) \cap StoredIds
  /\ UNCHANGED <<live, observe, now, storeVars, connVars, timer, limit,
                 callVars,
                 sentValue>>

\* The handler throws or its promise rejects: the catch block
CbThrow(p, i) ==
  /\ i \in 1..Len(cycles[p])
  /\ cycles[p][i].pc = "cb"
  /\ cycles' = [cycles EXCEPT ![p] = RemoveAt(@, i)]
  /\ isRun' = [isRun EXCEPT ![p] = IsRunAfterCatch]
  /\ outcome' = [outcome EXCEPT ![p] = "handlerError"]
  /\ handled' = (handled \cup IdsOf(cycles[p][i].events)) \cap StoredIds
  /\ UNCHANGED <<live, observe, now, storeVars, connVars, timer, limit,
                 callVars,
                 sentValue>>

\* ------------------------------------------------------ specification
CallIdx == 1..MaxCalls
CycleIdx == 1..MaxCycles
InsertedIds == {id \in Ids : id < nextId}
RemovableIds == InsertedIds \cup {NoSuchId}

Next ==
  \/ AdvanceTime
  \/ \E p \in Procs, value \in Payloads, date \in Times : SendCall(p, value, date)
  \/ \E i \in CallIdx : SendConnected(i)
  \/ \E i \in CallIdx : SendConnectFail(i)
  \/ \E i \in CallIdx : InsertOk(i)
  \/ \E i \in CallIdx : InsertFail(i)
  \/ \E p \in Procs, id \in InsertedIds : RemoveCall(p, id)
  \/ \E i \in CallIdx : DeleteOk(i)
  \/ \E i \in CallIdx : DeleteFail(i)
  \/ \E p \in Procs, n \in Limits : GetItemsCall(p, n)
  \/ \E p \in Procs : GetItemsConnected(p)
  \/ \E p \in Procs : GetItemsConnectFail(p)
  \/ \E p \in Procs : TimerTick(p)
  \/ \E p \in Procs, i \in CycleIdx : FindReturn(p, i)
  \/ \E p \in Procs, i \in CycleIdx : FindFail(p, i)
  \/ \E p \in Procs, i \in CycleIdx : CbReturn(p, i)
  \/ \E p \in Procs, i \in CycleIdx : CbThrow(p, i)

Spec == Init /\ [][Next]_vars

\* send alone, over every sample payload, with the default date
NextSend ==
  \/ \E p \in Procs, value \in AllPayloads : SendCall(p, value, now)
  \/ \E i \in CallIdx : SendConnected(i)
  \/ \E i \in CallIdx : SendConnectFail(i)
  \/ \E i \in CallIdx : InsertOk(i)
  \/ \E i \in CallIdx : InsertFail(i)

SpecSend == InitObserved /\ [][NextSend]_vars

\* send and removeEvent, of stored, deleted and never inserted _ids, with
\* the outcome of every call recorded
NextRemove ==
  \/ AdvanceTime
  \/ \E p \in Procs, value \in Payloads : SendCall(p, value, now)
  \/ \E i \in CallIdx : SendConnected(i)
  \/ \E i \in CallIdx : InsertOk(i)
  \/ \E p \in Procs, id \in RemovableIds : RemoveCall(p, id)
  \/ \E i \in CallIdx : DeleteOk(i)
  \/ \E i \in CallIdx : DeleteFail(i)

\* Two pollers on one collection, with a store that does not fail: the
\* first instance also produces, both poll with the default limit
NextMulti ==
  \/ AdvanceTime
  \/ \E value \in Payloads : SendCall("p1", value, now)
  \/ \E i \in CallIdx : SendConnected(i)
  \/ \E i \in CallIdx : InsertOk(i)
  \/ \E p \in Procs : GetItemsCall(p, DefaultLimit)
  \/ \E p \in Procs : GetItemsConnected(p)
  \/ \E p \in Procs : TimerTick(p)
  \/ \E p \in Procs, i \in CycleIdx : FindReturn(p, i)
  \/ \E p \in Procs, i \in CycleIdx : CbReturn(p, i)

SpecMulti == InitMulti /\ [][NextMulti]_vars

SpecRemove == InitObserved /\ [][NextRemove]_vars

InCb(p) == {i \in 1..Len(cycles[p]) : cycles[p][i].pc = "cb"}

\* A handler that deletes what it was given: while its invocation is in
\* flight it calls removeEvent for a document of its batch ...
HandlerRemove(p, id) ==
  /\ \E c \in InCb(p) : id \in IdsOf(cycles[p][c].events)
  /\ id \in StoredIds
  /\ RemoveCall(p, id)

\* ... and its promise resolves once none of them is stored any more
HandlerDone(p, i) ==
  /\ i \in 1..Len(cycles[p])
  /\ IdsOf(cycles[p][i].events) \cap StoredIds = {}
  /\ CbReturn(p, i)

\* The queue with a store that never fails, a timer that keeps firing and a
\* handler that deletes its batch and returns
NextLive ==
  \/ AdvanceTime
  \/ \E p \in Procs, value \in Payloads, date \in Times : SendCall(p, value, date)
  \/ \E i \in CallIdx : SendConnected(i)
  \/ \E i \in CallIdx : InsertOk(i)
  \/ \E p \in Procs, n \in Limits : GetItemsCall(p, n)
  \/ \E p \in Procs : GetItemsConnected(p)
  \/ \E p \in Procs : TimerTick(p)
  \/ \E p \in Procs, i \in CycleIdx : FindReturn(p, i)
  \/ \E p \in Procs, id \in Ids : HandlerRemove(p, id)
  \/ \E i \in CallIdx : DeleteOk(i)
  \/ \E p \in Procs, i \in CycleIdx : HandlerDone(p, i)

\* setInterval keeps firing, every pending promise of the store settles,
\* the handler goes on, time passes
Fairness ==
  /\ WF_vars(AdvanceTime)
  /\ WF_vars(\E i \in CallIdx : SendConnected(i))
  /\ WF_vars(\E i \in CallIdx : InsertOk(i))
  /\ WF_vars(\E i \in CallIdx : DeleteOk(i))
  /\ \A p \in Procs :
       /\ WF_vars(GetItemsConnected(p))
       /\ WF_vars(TimerTick(p))
       /\ WF_vars(\E i \in CycleIdx : FindReturn(p, i))
       /\ WF_vars(\E id \in Ids : HandlerRemove(p, id))
       /\ WF_vars(\E i \in CycleIdx : HandlerDone(p, i))

SpecLive == Init /\ [][NextLive]_vars /\ Fairness

\* ============================================================ claims
Cleared == {"ok", "queryError", "handlerError"}

\* C1: single-flight.  In one instance at most one timer callback is past
\* the guard at any time, and a tick that fires while isRun is set starts no
\* cycle: it issues no find and the handler is not called for it.
C1_SingleFlight ==
  [][\A p \in Procs :
       /\ Len(cycles'[p]) <= 1
       /\ isRun[p] => Len(cycles'[p]) <= Len(cycles[p])]_vars

\* C1 witness: a tick was skipped while a handler invocation is in flight.
C1_Witness ==
  /\ outcome["p1"] = "skipped"
  /\ isRun["p1"]
  /\ InCb("p1") # {}

\* C2: once the timer runs, every inserted document is eventually passed to
\* the handler in some batch (documents dated before the last instant of
\* the model, so that their date can pass).
C2_EventualDelivery ==
  \A id \in Ids :
    (timer["p1"] = "running" /\ \E r \in store : r.id = id /\ r.date < MaxTime)
      ~> (\E c \in InCb("p1") : id \in IdsOf(cycles["p1"][c].events))

\* C3: when the find of a cycle returns no documents, the in-flight mark is
\* cleared before the callback returns.
C3_EmptyResultClearsMark ==
  \A p \in Procs : outcome[p] = "empty" => ~isRun[p]

\* C4: after a cycle in which the find or the handler failed, and after one
\* in which the handler completed, the mark is cleared, nothing of the cycle
\* is left in flight and the timer runs on; the next tick starts a cycle
\* (its find is issued).
C4_MarkClearedAfterCycle ==
  [][\A p \in Procs :
       /\ outcome'[p] \in Cleared =>
            ~isRun'[p] /\ cycles'[p] = <<>> /\ timer'[p] = "running"
       /\ (outcome[p] \in Cleared /\ outcome'[p] # outcome[p]) =>
            /\ outcome'[p] = "started"
            /\ Len(cycles'[p]) = 1
            /\ cycles'[p][1].pc = "find"]_vars

\* C4 witness: a cycle was started after one whose handler invocation had
\* finished, with a document of that batch still stored.
C4_Witness ==
  /\ outcome["p1"] = "started"
  /\ handled # {}
  /\ Len(cycles["p1"]) = 1

\* C5: every batch passed to the handler is in non-decreasing date order.
C5_BatchSorted ==
  \A p \in Procs : \A c \in InCb(p) :
    LET ev == cycles[p][c].events IN
    \A i, j \in 1..Len(ev) : i < j => ev[i].date <= ev[j].date

\* C5 witness: a batch of two documents of different dates, the older one
\* inserted last.
C5_Witness ==
  \E c \in InCb("p1") :
    LET ev == cycles["p1"][c].events IN
    Len(ev) = 2 /\ ev[1].date < ev[2].date /\ ev[1].id > ev[2].id

\* C6: no batch passed to the handler holds a document whose date is later
\* than the time its find was issued, and a document is in no batch before
\* its date has passed.
C6_NoFutureDocument ==
  \A p \in Procs : \A c \in InCb(p) :
    \A r \in Range(cycles[p][c].events) :
      r.date <= cycles[p][c].qnow /\ r.date < now

\* C6 witness: a batch is with the handler while a stored document that was
\* not yet due when the find was issued is left out of it.
C6_Witness ==
  \E c \in InCb("p1") : \E r \in store :
    /\ r.date >= cycles["p1"][c].qnow
    /\ r \notin Range(cycles["p1"][c].events)
    /\ cycles["p1"][c].events # <<>>

\* C7: a document that was in the batch of a finished handler invocation
\* (returned or thrown) and was not deleted is still stored and still due,
\* and is in the result of the next cycle's find, unless that result is
\* full (limit documents).
C7_Redelivery ==
  [][\A p \in Procs : \A i \in 1..Len(cycles[p]) :
       (cycles[p][i].pc = "find" /\ outcome'[p] \in {"empty", "delivering"}) =>
         LET res == IF outcome'[p] = "empty" THEN <<>>
                    ELSE cycles'[p][i].events IN
         \A id \in handled :
           /\ \E r \in store :
                /\ r.id = id
                /\ r.date < cycles[p][i].qnow
                /\ r.isWork = FALSE /\ r.isDone = FALSE
           /\ id \in IdsOf(res) \/ Len(res) = limit[p]]_vars

\* C7 witness: a document of an earlier, finished handler invocation is in
\* the batch of the invocation now in flight.
C7_Witness ==
  \E c \in InCb("p1") : IdsOf(cycles["p1"][c].events) \cap handled # {}

\* C8: a batch passed to the handler holds no document whose removeEvent
\* call had resolved when the find of that cycle was issued.
C8_RemovedNotDelivered ==
  \A p \in Procs : \A c \in InCb(p) :
    IdsOf(cycles[p][c].events) \cap cycles[p][c].doneAtIssue = {}

\* C8 witness: a batch is with the handler in a cycle started after the
\* removeEvent of an inserted document had resolved.
C8_Witness ==
  \E c \in InCb("p1") :
    /\ cycles["p1"][c].doneAtIssue \cap Ids # {}
    /\ cycles["p1"][c].events # <<>>

\* C9: removeEvent raises no error of its own, whatever the state of the
\* instance and whether or not the id is stored.
C9_RemoveNeverThrows ==
  ~(settled.op = "removeEvent" /\ settled.result = "TypeError")

\* C10: every top-level string of the payload passed to send that is 24
\* hexadecimal characters is stored as an ObjectId, every other top-level
\* string is stored as the same string.
C10_StringsNormalized ==
  \A r \in store :
    LET sent == sentValue[r.id] IN
    /\ DOMAIN r.value = DOMAIN sent
    /\ \A k \in DOMAIN sent :
         sent[k].t = "string" =>
           r.value[k] = IF MatchesHex24(sent[k].s) THEN ObjectId(sent[k].s)
                        ELSE sent[k]


\* C11: a send whose payload holds a top-level value that is not a string (a
\* number, a nested mapping, an ObjectId) succeeds, and the value is stored
\* as it was passed.
C11_NonStringsPassThrough ==
  /\ ~(settled.op = "send" /\ settled.result = "TypeError")
  /\ \A r \in store : \A k \in DOMAIN sentValue[r.id] :
       sentValue[r.id][k].t # "string" => r.value[k] = sentValue[r.id][k]


\* C12: a step that adds to the collection is a send call whose insert
\* resolves: it adds exactly one document, with an _id not stored before,
\* isWork = false, isDone = false and the date the call was given, and
\* leaves every stored document as it was.
C12_SendAddsOneDocument ==
  [][store' \ store # {} =>
       \E i \in 1..Len(sends) : \E r \in store' :
         /\ sends[i].pc = "insert"
         /\ sends' = RemoveAt(sends, i)
         /\ store' = store \cup {r}
         /\ r.id \notin StoredIds
         /\ r.isWork = FALSE /\ r.isDone = FALSE
         /\ r.date = sends[i].date
         /\ r.value = sends[i].value]_vars

\* C12 witness: a second document was added, one of the two dated in the
\* future and one not.
C12_Witness ==
  /\ Cardinality(store) = 2
  /\ \E r \in store : r.date > now
  /\ \E r \in store : r.date <= now


SendErrors == {"ConnectionError", "WriteError", "TypeError"}
Connecting(s) == Cardinality({i \in 1..Len(s) : s[i].pc = "connect"})

\* C13: a send call that ends without its insert acknowledged rejects with
\* the error (connection, write) and adds nothing to the collection; a call
\* resolves only with its document added; a failed call is not issued again
\* (a call awaiting its connect goes on only when the connect succeeds).
C13_SendFailuresSurface ==
  [][/\ Len(sends') < Len(sends) =>
          /\ settled'.op = "send"
          /\ IF nextId' > nextId
               THEN settled'.result = "ok" /\ Cardinality(store' \ store) = 1
               ELSE settled'.result \in SendErrors /\ store' = store
     /\ (Connecting(sends') < Connecting(sends) /\ collection' = collection) =>
          /\ Len(sends') = Len(sends) - 1
          /\ settled'.result = "ConnectionError"]_vars

\* C13 witness: a send call has rejected with a write error after an earlier
\* one had stored its document, and no call is left in flight.
C13_Witness ==
  /\ settled = [op |-> "send", result |-> "WriteError"]
  /\ Cardinality(store) = 1
  /\ sends = <<>>


\* C14: an instance establishes its storage connection at most once, over
\* every interleaving of send and getItems calls, and this.collection, once
\* set, stays the same handle.
C14_ConnectedOnce ==
  \A p \in Procs : connected[p] <= 1 /\ collection[p] <= 1


\* C15: the batch of a cycle is the oldest prefix of the due set. When a find
\* resolves, the batch (empty when the callback returns without calling the
\* handler) has min(limit, number of due documents) documents and never more
\* than limit, all of them distinct due documents (date < query time, isWork
\* and isDone false), and no due document left out is older than one taken.
C15_BatchIsOldestPrefix ==
  [][\A p \in Procs :
       (cycles'[p] # cycles[p] /\ outcome'[p] \in {"empty", "delivering"}) =>
         \E i \in 1..Len(cycles[p]) :
           LET due == {r \in store : /\ r.date < cycles[p][i].qnow
                                     /\ r.isWork = FALSE
                                     /\ r.isDone = FALSE}
               batch == IF outcome'[p] = "delivering"
                          THEN cycles'[p][i].events ELSE <<>>
               size == IF limit[p] < Cardinality(due)
                         THEN limit[p] ELSE Cardinality(due)
           IN  /\ cycles[p][i].pc = "find"
               /\ Len(batch) = size
               /\ Len(batch) <= limit[p]
               /\ Range(batch) \subseteq due
               /\ Cardinality(Range(batch)) = size
               /\ \A b \in Range(batch) : \A r \in due \ Range(batch) :
                    b.date <= r.date]_vars

\* a handler runs on a batch cut by the limit while a due document with a
\* later date stays behind
C15_Witness ==
  \E p \in Procs : \E i \in 1..Len(cycles[p]) :
    /\ cycles[p][i].pc = "cb"
    /\ Len(cycles[p][i].events) = limit[p]
    /\ \E r \in store :
         /\ r.date < cycles[p][i].qnow
         /\ \A b \in Range(cycles[p][i].events) : b.date < r.date


\* C16: the handler is never invoked with an empty batch: every handler
\* invocation in flight holds at least one document, and a cycle whose find
\* returns nothing ends without one.
C16_NoEmptyBatch ==
  \A p \in Procs : \A i \in 1..Len(cycles[p]) :
    cycles[p][i].pc = "cb" => Len(cycles[p][i].events) > 0

\* a cycle's find returned no documents and the cycle ended there
C16_Witness ==
  outcome["p1"] = "empty" /\ cycles["p1"] = <<>> /\ handled = {}


\* C17: the dispatcher never writes to the store. A step of the poller
\* (its timer, mark, cycles or outcome change) leaves the store as it is;
\* no step changes a field of a stored document; every stored document has
\* isWork = false and isDone = false; and a document leaves the store only
\* in a step in which a removeEvent call resolves.
C17_DispatcherNeverWrites ==
  [][/\ pollerVars' # pollerVars => store' = store
     /\ \A r \in store : r \in store' \/ r.id \notin {q.id : q \in store'}
     /\ \A r \in store' : r.isWork = FALSE /\ r.isDone = FALSE
     /\ (\E r \in store : r \notin store') => Len(removes') < Len(removes)]_vars

\* a cycle has run to its end with the handler, and the documents it
\* delivered are stored as they were inserted
C17_Witness ==
  /\ outcome["p1"] \in {"ok", "handlerError"}
  /\ \E r \in store :
       /\ r.id \in handled
       /\ r.isWork = FALSE /\ r.isDone = FALSE
       /\ r.value = Normalize(sentValue[r.id]).value


\* C18: removeEvent(id) on a stored document removes exactly the document
\* with that id; every other stored document, those with the same payload
\* or the same date included, stays as it is.
C18_RemovesExactlyOne ==
  [][\A i \in 1..Len(removes) :
       (removes' = RemoveAt(removes, i) /\ removedDone' # removedDone) =>
         /\ removes[i].id \in StoredIds
         /\ store' \subseteq store
         /\ Cardinality(store \ store') = 1
         /\ \A r \in store : r.id # removes[i].id <=> r \in store']_vars

\* of two documents with the same payload and date that are with the
\* handler, one has been removed and the other is still stored
C18_Witness ==
  \E c \in InCb("p1") : \E a, b \in Range(cycles["p1"][c].events) :
    /\ a.id # b.id
    /\ a.value = b.value /\ a.date = b.date
    /\ a.id \in removedDone
    /\ store = {b}


\* C19: a handler invocation that does not settle blocks delivery. While a
\* handler invocation of an instance is in flight the timer is running and
\* the mark is set, and as long as it has not settled every step leaves the
\* instance's cycles as they are (no find is issued, no handler is invoked)
\* and the mark set: a tick in that time is skipped.
C19_HungHandlerBlocks ==
  [][\A p \in Procs :
       (\E i \in 1..Len(cycles[p]) : cycles[p][i].pc = "cb") =>
         /\ timer[p] = "running" /\ isRun[p]
         /\ Len(cycles'[p]) >= Len(cycles[p]) =>
              /\ cycles'[p] = cycles[p]
              /\ isRun'[p]
              /\ outcome'[p] \in {outcome[p], "skipped"}]_vars

\* a tick was skipped while the handler holds a batch, and a due document
\* that is not in that batch waits in the store
C19_Witness ==
  /\ outcome["p1"] = "skipped"
  /\ \E i \in 1..Len(cycles["p1"]) :
       /\ cycles["p1"][i].pc = "cb"
       /\ \E r \in store : /\ r.date < now
                           /\ r.id \notin IdsOf(cycles["p1"][i].events)


\* C20: the single-flight guard is per instance. With two instances polling
\* the same collection, a tick of an instance is skipped only on that
\* instance's own mark and starts a cycle whenever its own mark is clear,
\* whatever the other instance is doing; so one document can be with the
\* handlers of both instances at the same time.
C20_GuardPerInstance ==
  [][\A p \in Procs :
       /\ (outcome'[p] = "skipped" /\ outcome[p] # "skipped") => isRun[p]
       /\ (outcome'[p] = "started" /\ cycles'[p] # cycles[p]) => ~isRun[p]
       /\ (isRun'[p] # isRun[p]) =>
            \A q \in Procs \ {p} : isRun'[q] = isRun[q]]_vars

\* the same document is in the batches of two handler invocations in
\* flight, one per instance
C20_Witness ==
  \E c \in InCb("p1") : \E d \in InCb("p2") :
    IdsOf(cycles["p1"][c].events) \cap IdsOf(cycles["p2"][d].events) # {}

====
